---- MODULE Spec2Model ----
(***************************************************************************)
(* A model of the vocabulary selector (PracticeHub.selectWordsForLevel)    *)
(* and the handlers that call it, of the generation cache                  *)
(* (services/cacheService.ts with the generation operations of             *)
(* services/geminiService.ts that wrap it), of the word pool and session   *)
(* history of App (ManageWords, finishSession), and of the audio fetches   *)
(* of the practice components, all bundled in src/App.tsx.                 *)
(***************************************************************************)
EXTENDS Integers, Sequences, FiniteSets, TLC

\* ------------------------------------------------------------------------
\* Bounds of the model
\* ------------------------------------------------------------------------
MaxPool == 3        \* largest word pool
MaxCount == 4       \* largest requested count
MaxErr == 2         \* largest errorCount of a pool word
MaxEpoch == 1       \* the clock is read within MaxSlack ms after
MaxSlack == 1       \*   0, CACHE_TTL, ..., MaxEpoch * CACHE_TTL

VARIABLES
    words,           \* the word pool (App state `words`), a sequence of Word
    selCount,        \* the count of the last selectWordsForLevel call (0: none)
    selectedWords,   \* its selectedWords
    challengeWords,  \* its challengeWords
    storage,         \* sessionStorage, by cache key (stored under CACHE_PREFIX + key)
    now,             \* new Date().getTime()
    lastOp,          \* the last cache operation: its arguments, result and pre-state
    requests,        \* the calls of generation operations, by slot
    history,         \* the session history (App state `history`), newest first
    adding,          \* handleAddWord between its check and its setWords
    uploading,       \* handleFileUpload between its check and its setWords
    finished,        \* the last finishSession: its inputs and pre-state
    practice         \* the practice component on screen: its state and its fetches

selVars == <<words, selCount, selectedWords, challengeWords>>
cacheVars == <<storage, now, lastOp>>
appVars == <<history, adding, uploading, finished, practice>>
vars == <<words, selCount, selectedWords, challengeWords, storage, now, lastOp,
          requests, history, adding, uploading, finished, practice>>

\* ------------------------------------------------------------------------
\* Word pool
\* ------------------------------------------------------------------------
\* Timestamps are ranks: dateAdded is compared with dateAdded only, lastUsed
\* with lastUsed only.
DateRanks == {1, 2}
NoStamp == 0         \* lastUsed: null (new Date(null || 0) is the epoch)
UsedRanks == {1}

\* text of the word at a pool position: the pool is kept sorted by text and
\* texts are unique, so the position stands for the text.
TextAt(i) == i

Word == [text : 1..MaxPool, errorCount : 0..MaxErr, usageCount : 0..MaxErr,
         lastUsed : {NoStamp} \cup UsedRanks, dateAdded : DateRanks]

\* the words a pool can hold at position i: finishSession raises errorCount
\* together with usageCount and lastUsed, so a word with errors has been used.
WordsAt(i) ==
    { w \in [text : {TextAt(i)}, errorCount : 0..MaxErr, usageCount : 0..MaxErr,
             lastUsed : {NoStamp} \cup UsedRanks, dateAdded : DateRanks] :
        /\ w.usageCount = w.errorCount
        /\ w.errorCount > 0 => w.lastUsed # NoStamp }

Pools == UNION { { p \in [1..n -> UNION { WordsAt(i) : i \in 1..n }] :
                     \A i \in 1..n : p[i] \in WordsAt(i) }
                 : n \in 0..MaxPool }

\* ------------------------------------------------------------------------
\* Helpers of selectWordsForLevel
\* ------------------------------------------------------------------------
Range(s) == { s[i] : i \in DOMAIN s }

RECURSIVE FilterSeq(_, _)
\* Array.prototype.filter with the set of accepted elements
FilterSeq(s, keep) ==
    IF s = <<>> THEN <<>>
    ELSE IF Head(s) \in keep THEN <<Head(s)>> \o FilterSeq(Tail(s), keep)
         ELSE FilterSeq(Tail(s), keep)

RECURSIVE InsertSorted(_, _, _)
InsertSorted(x, s, key) ==
    IF s = <<>> THEN <<x>>
    ELSE IF key[Head(s)] <= key[x]
         THEN <<Head(s)>> \o InsertSorted(x, Tail(s), key)
         ELSE <<x>> \o s

RECURSIVE StableSort(_, _)
\* Array.prototype.sort with a comparator key[a] - key[b]: ascending by key,
\* equal keys keep their order (the sort is stable).
StableSort(s, key) ==
    IF s = <<>> THEN <<>>
    ELSE InsertSorted(s[Len(s)], StableSort(SubSeq(s, 1, Len(s) - 1), key), key)

RECURSIVE AddEvenIfPresent(_, _, _)
\* AddWhileBelow without the !set.has(w) test, as an array would behave
AddEvenIfPresent(sel, cand, limit) ==
    IF cand = <<>> THEN sel
    ELSE IF Len(sel) < limit
         THEN AddEvenIfPresent(Append(sel, Head(cand)), Tail(cand), limit)
         ELSE AddEvenIfPresent(sel, Tail(cand), limit)

RECURSIVE AddWhileBelow(_, _, _)
\* cand.forEach(w => { if (set.size < limit && !set.has(w)) set.add(w) })
AddWhileBelow(sel, cand, limit) ==
    IF cand = <<>> THEN sel
    ELSE IF Len(sel) < limit /\ Head(cand) \notin Range(sel)
         THEN AddWhileBelow(Append(sel, Head(cand)), Tail(cand), limit)
         ELSE AddWhileBelow(sel, Tail(cand), limit)

\* Math.floor(count * 0.4)
FloorQuota(count) == (2 * count) \div 5

\* Math.ceil(count * 0.4)
CeilQuota(count) == (2 * count + 4) \div 5

Min(a, b) == IF a <= b THEN a ELSE b

\* the orders wordsCopy.sort(() => Math.random() - 0.5) can leave n words in
AllShuffles ==
    [n \in 0..MaxPool |->
        { p \in [1..n -> 1..n] : \A i, j \in 1..n : p[i] = p[j] => i = j }]

Shuffles(n) == AllShuffles[n]

\* ------------------------------------------------------------------------
\* selectWordsForLevel: Word objects are handled by reference, here by their
\* position in the pool
\* ------------------------------------------------------------------------
\* erroredWordsOf without the sort
erroredUnsorted(pool) ==
    FilterSeq([i \in 1..Len(pool) |-> i],
              { i \in 1..Len(pool) : pool[i].errorCount > 0 })

\* const erroredWords = wordsCopy.filter(w => w.errorCount > 0)
\*                                .sort((a, b) => b.errorCount - a.errorCount)
erroredWordsOf(pool) ==
    StableSort(FilterSeq([i \in 1..Len(pool) |-> i],
                         { i \in 1..Len(pool) : pool[i].errorCount > 0 }),
               [i \in 1..Len(pool) |-> 0 - pool[i].errorCount])

\* const nonErroredWords = wordsCopy.filter(w => w.errorCount === 0)
nonErroredWordsOf(pool) ==
    FilterSeq([i \in 1..Len(pool) |-> i],
              { i \in 1..Len(pool) : pool[i].errorCount = 0 })

\* ChallengeOf taken from the whole pool instead of the selection
ChallengeFromPool(pool, sel) == erroredUnsorted(pool)

\* finalSelectedWords.filter(w => w.errorCount > 0)
ChallengeOf(pool, sel) ==
    FilterSeq(sel, { i \in 1..Len(pool) : pool[i].errorCount > 0 })

\* newestWordsOf without the sort
newestUnsorted(pool, nonErroredWords) == nonErroredWords

\* const newestWords = [...nonErroredWords].sort((a, b) =>
\*     new Date(b.dateAdded).getTime() - new Date(a.dateAdded).getTime())
newestWordsOf(pool, nonErroredWords) ==
    StableSort(nonErroredWords, [i \in 1..Len(pool) |-> 0 - pool[i].dateAdded])

\* otherWordsOf without the sort
otherUnsorted(pool, nonErroredWords) == nonErroredWords

\* const otherWords = [...nonErroredWords].sort((a, b) =>
\*     new Date(a.lastUsed || 0).getTime() - new Date(b.lastUsed || 0).getTime())
otherWordsOf(pool, nonErroredWords) ==
    StableSort(nonErroredWords, [i \in 1..Len(pool) |-> pool[i].lastUsed])

\* the element of a set of one element; in { e(x) : x \in {v} } the array v
\* is built once and e uses it by the name x, as a const of the code
TheOne(S) == CHOOSE x \in S : TRUE

\* The selection before the random fill: the errored, newest and other passes.
BeforeShuffle(pool, count) ==
    TheOne({ TheOne({
        LET erroredCount == Min(Len(erroredWords), CeilQuota(count))
            newestCount == Min(Len(newestWords), CeilQuota(count))
            afterErrored == SubSeq(erroredWords, 1, erroredCount)
        IN  TheOne({ AddWhileBelow(afterNewest, otherWords, count) :
                afterNewest \in { AddWhileBelow(afterErrored, newestWords,
                                                erroredCount + newestCount) } })
        : newestWords \in { newestWordsOf(pool, nonErroredWords) },
          otherWords \in { otherWordsOf(pool, nonErroredWords) } })
        : erroredWords \in { erroredWordsOf(pool) },
          nonErroredWords \in { nonErroredWordsOf(pool) } })

\* if (selectedWordsSet.size < count)
NeedsShuffle(pool, count) == Len(BeforeShuffle(pool, count)) < count

\* selectWordsForLevel without the random fill of the remaining slots
selectWithoutFill(pool, count, shuffled) ==
    LET selectedBefore == BeforeShuffle(pool, count)
        finalSelectedWords ==
            SubSeq(selectedBefore, 1, Min(Len(selectedBefore), count))
    IN  [selectedWords  |-> finalSelectedWords,
         challengeWords |-> ChallengeOf(pool, finalSelectedWords)]

\* selectWordsForLevel, with the order `shuffled` that the random sort of
\* wordsCopy produces when it is reached; the result holds pool positions
selectWordsForLevel(pool, count, shuffled) ==
    TheOne({ TheOne({ [selectedWords  |-> finalSelectedWords,
                       challengeWords |-> ChallengeOf(pool, finalSelectedWords)] :
                 finalSelectedWords \in
                    { LET selectedWordsSet ==
                              IF Len(selectedBefore) < count
                              THEN AddWhileBelow(selectedBefore, shuffled, count)
                              ELSE selectedBefore
                      IN  SubSeq(selectedWordsSet, 1,
                                 Min(Len(selectedWordsSet), count)) } })
             : selectedBefore \in { BeforeShuffle(pool, count) } })

\* the array `words` after a call that sorts it in place (wordsCopy = words)
wordsSortedInPlace(pool, count, shuffled) ==
    IF Len(BeforeShuffle(pool, count)) < count
    THEN [i \in 1..Len(pool) |-> pool[shuffled[i]]]
    ELSE pool

\* the array `words` after the call: wordsCopy = [...words] is a new array,
\* filter returns new arrays, every sort is applied to one of these, and no
\* property of a Word is assigned
wordsAfterSelect(pool, count, shuffled) == pool

\* the Word objects at a sequence of pool positions
WordsOf(pool, sel) == [k \in 1..Len(sel) |-> pool[sel[k]]]

\* ------------------------------------------------------------------------
\* services/cacheService.ts
\* ------------------------------------------------------------------------
CACHE_TTL == 3600000
CACHE_PREFIX == "gemini_cache_"

\* JavaScript values handed to and returned by the cache
Str(s) == [type |-> "string", text |-> s, bank |-> <<>>]
Null == [type |-> "null", text |-> "", bank |-> <<>>]
Undefined == [type |-> "undefined", text |-> "", bank |-> <<>>]
\* an object payload: its text fields and its shuffledWords (if it has any)
Obj(text, bank) == [type |-> "object", text |-> text, bank |-> bank]

\* the truthiness test of `if (cached)`, `if (translation)`, ...
Truthy(v) == v.type = "object" \/ (v.type = "string" /\ v.text # "")

\* What sessionStorage.getItem can return: null, the JSON text of a cache
\* entry, a text JSON.parse rejects, the JSON text `null`, or the JSON text of
\* an object that has no timestamp (with or without a data property).
NoItem == [form |-> "null", timestamp |-> 0, data |-> Undefined]
Garbage == [form |-> "garbage", timestamp |-> 0, data |-> Undefined]
JsonNull == [form |-> "jsonnull", timestamp |-> 0, data |-> Undefined]
Unstamped(data) == [form |-> "unstamped", timestamp |-> 0, data |-> data]

\* JSON.stringify(item) of a CacheEntry
JSONstringify(item) ==
    [form |-> "json", timestamp |-> item.timestamp, data |-> item.data]

\* JSON.parse(itemStr) as CacheEntry: throws on a text that is no JSON; the
\* value parsed can be null, and can lack the timestamp
JSONparse(itemStr) ==
    IF itemStr.form = "garbage"
    THEN [threw |-> TRUE,
          item |-> [isNull |-> FALSE, stamped |-> FALSE, timestamp |-> 0,
                    data |-> Undefined]]
    ELSE [threw |-> FALSE,
          item |-> [isNull |-> itemStr.form = "jsonnull",
                    stamped |-> itemStr.form = "json",
                    timestamp |-> itemStr.timestamp, data |-> itemStr.data]]

RECURSIVE JoinParts(_)
\* parts.join(':')
JoinParts(parts) ==
    IF parts = <<>> THEN ""
    ELSE IF Len(parts) = 1 THEN parts[1]
    ELSE parts[1] \o ":" \o JoinParts(Tail(parts))

createCacheKey(parts) == JoinParts(parts)

\* getCache with >= in the expiry test
getCacheOffByOne(store, key, t) ==
    LET itemStr == store[key]
    IN  IF itemStr = NoItem THEN [result |-> Null, store |-> store]
        ELSE LET parsed == JSONparse(itemStr)
             IN  IF parsed.threw \/ parsed.item.isNull
                 THEN [result |-> Null, store |-> store]
                 ELSE IF /\ parsed.item.stamped
                         /\ t - parsed.item.timestamp >= CACHE_TTL
                      THEN [result |-> Null,
                            store |-> [store EXCEPT ![key] = NoItem]]
                      ELSE [result |-> parsed.item.data, store |-> store]

\* getCache without the removeItem of an expired entry
getCacheNoEvict(store, key, t) ==
    LET itemStr == store[key]
    IN  IF itemStr = NoItem THEN [result |-> Null, store |-> store]
        ELSE LET parsed == JSONparse(itemStr)
             IN  IF parsed.threw \/ parsed.item.isNull
                 THEN [result |-> Null, store |-> store]
                 ELSE IF /\ parsed.item.stamped
                         /\ t - parsed.item.timestamp > CACHE_TTL
                      THEN [result |-> Null, store |-> store]
                      ELSE [result |-> parsed.item.data, store |-> store]

\* getCache(key) read at time t: the value returned and the storage left.
\* The catch block takes the SyntaxError of JSON.parse and the TypeError of
\* item.timestamp on null; with item.timestamp undefined the difference is
\* NaN, which is not greater than CACHE_TTL.
getCache(store, key, t) ==
    LET itemStr == store[key]
    IN  IF itemStr = NoItem THEN [result |-> Null, store |-> store]
        ELSE LET parsed == JSONparse(itemStr)
             IN  IF parsed.threw \/ parsed.item.isNull
                 THEN [result |-> Null, store |-> store]
                 ELSE IF /\ parsed.item.stamped
                         /\ t - parsed.item.timestamp > CACHE_TTL
                      THEN [result |-> Null,
                            store |-> [store EXCEPT ![key] = NoItem]]
                      ELSE [result |-> parsed.item.data, store |-> store]

\* setCache that keeps an entry already stored under the key
setCacheKeepOld(store, key, data, t, accepts) ==
    IF accepts /\ store[key] = NoItem
    THEN [store |-> [store EXCEPT
                       ![key] = JSONstringify([timestamp |-> t, data |-> data])],
          threw |-> FALSE]
    ELSE [store |-> store, threw |-> FALSE]

\* setCache that empties the cache when the storage is full
setCacheClearing(store, key, data, t, accepts) ==
    IF accepts
    THEN [store |-> [store EXCEPT
                       ![key] = JSONstringify([timestamp |-> t, data |-> data])],
          threw |-> FALSE]
    ELSE [store |-> [k \in DOMAIN store |-> NoItem], threw |-> FALSE]

\* setCache without the try/catch around setItem
setCacheThrowing(store, key, data, t, accepts) ==
    IF accepts
    THEN [store |-> [store EXCEPT
                       ![key] = JSONstringify([timestamp |-> t, data |-> data])],
          threw |-> FALSE]
    ELSE [store |-> store, threw |-> TRUE]

\* setCache(key, data) at time t; `accepts` tells whether sessionStorage.setItem
\* takes the write or throws (QuotaExceededError). The storage left, and
\* whether setCache itself throws.
setCache(store, key, data, t, accepts) ==
    IF accepts
    THEN [store |-> [store EXCEPT
                       ![key] = JSONstringify([timestamp |-> t, data |-> data])],
          threw |-> FALSE]
    ELSE [store |-> store, threw |-> FALSE]

\* ------------------------------------------------------------------------
\* App state outside a ManageWords operation and a session
\* ------------------------------------------------------------------------
NoAdd == [busy |-> FALSE, word |-> 0]
NoUpload == [busy |-> FALSE, words |-> <<>>]
NoResult == [id |-> 0, type |-> "", errors |-> <<>>, totalWords |-> 0,
             correctWords |-> 0]
NoFinish == [is |-> FALSE, guess |-> <<>>, correct |-> <<>>, result |-> NoResult,
             time |-> 0, wordsBefore |-> <<>>, historyBefore |-> <<>>]

\* no practice component is mounted
NoPractice ==
    [kind |-> "none", selectedVoice |-> "", audioUrl |-> "", wordAudios |-> "",
     isLoadingAudio |-> FALSE, fetches |-> {}, issued |-> 0, settled |-> ""]

AppIdle ==
    /\ history = <<>>
    /\ adding = NoAdd
    /\ uploading = NoUpload
    /\ finished = NoFinish
    /\ practice = NoPractice

\* ------------------------------------------------------------------------
\* The cache as a state machine: reads, writes and the passage of time
\* ------------------------------------------------------------------------
\* the instants at which the clock is read
Times == { e * CACHE_TTL + d : e \in 0..MaxEpoch, d \in 0..MaxSlack }

CacheKeys == { createCacheKey(<<"translation", "ant">>),
               createCacheKey(<<"audio", "Kore", "ant">>) }

CachePayloads == { Str("hormiga"), Str("UklGRg==") }

NoOp == [op |-> "none", key |-> "", data |-> Null, result |-> Null,
         accepted |-> FALSE, threw |-> FALSE, time |-> 0,
         before |-> [k \in CacheKeys |-> NoItem],
         prevSet |-> [is |-> FALSE, data |-> Null, accepted |-> FALSE]]

InitCache ==
    /\ words = <<>> /\ selCount = 0
    /\ selectedWords = <<>> /\ challengeWords = <<>>
    /\ storage \in [CacheKeys -> {NoItem, Garbage}]
    /\ now = 0
    /\ lastOp = NoOp
    /\ requests = <<>>
    /\ AppIdle

GetCacheCall(key) ==
    LET r == getCache(storage, key, now)
    IN  /\ storage' = r.store
        /\ lastOp' = [op |-> "get", key |-> key, data |-> Null,
                      result |-> r.result, accepted |-> FALSE,
                      threw |-> FALSE, time |-> now,
                      before |-> storage,
                      prevSet |-> IF /\ lastOp.op = "set" /\ lastOp.key = key
                                     /\ lastOp.time = now
                                  THEN [is |-> TRUE, data |-> lastOp.data,
                                        accepted |-> lastOp.accepted]
                                  ELSE NoOp.prevSet]
        /\ UNCHANGED <<now, selVars, requests, appVars>>

SetCacheCall(key, data, accepts) ==
    LET r == setCache(storage, key, data, now, accepts)
    IN  /\ storage' = r.store
        /\ lastOp' = [op |-> "set", key |-> key, data |-> data,
                      result |-> Null, accepted |-> accepts,
                      threw |-> r.threw, time |-> now,
                      before |-> storage, prevSet |-> NoOp.prevSet]
        /\ UNCHANGED <<now, selVars, requests, appVars>>

Tick ==
    /\ \E t \in Times : t > now /\ now' = t
    /\ lastOp' = [NoOp EXCEPT !.op = "tick", !.time = now']
    /\ UNCHANGED <<storage, selVars>>

TickCache == Tick /\ UNCHANGED <<requests, appVars>>

NextCache ==
    \/ \E key \in CacheKeys : GetCacheCall(key)
    \/ \E key \in CacheKeys, data \in CachePayloads, accepts \in BOOLEAN :
          SetCacheCall(key, data, accepts)
    \/ TickCache

SpecCache == InitCache /\ [][NextCache]_vars

\* ------------------------------------------------------------------------
\* services/geminiService.ts: the generation operations around the cache
\* ------------------------------------------------------------------------
\* the vocabulary of the requests, in the order of String comparison (by
\* UTF-16 code unit: ':' comes before the letters)
Vocabulary == <<"a", "a:b", "ant", "b:c", "bee", "c">>

StringRank == [w \in Range(Vocabulary) |->
                 CHOOSE i \in 1..Len(Vocabulary) : Vocabulary[i] = w]

\* the list as it is, without words.sort()
KeepOrder(ws) == ws

\* words.sort()
SortStrings(ws) == StableSort(ws, StringRank)

\* the calls followed: operation, word list (or the single word, prompt or
\* text), level, question count or voice, and the challengeWords of a
\* dictation; the third dictation is a retry of a text in which one word was
\* missed twice
GenRequests ==
    { [op |-> "translation", words |-> <<"ant">>, param |-> "",
       challenge |-> <<>>],
      [op |-> "dictation", words |-> <<"ant", "bee">>, param |-> "Basic",
       challenge |-> <<>>],
      [op |-> "dictation", words |-> <<"bee", "ant">>, param |-> "Basic",
       challenge |-> <<"bee">>],
      [op |-> "dictation", words |-> <<"bee", "ant", "bee">>, param |-> "Basic",
       challenge |-> <<"bee">>],
      [op |-> "listening", words |-> <<"bee", "ant">>, param |-> ToString(4),
       challenge |-> <<>>],
      [op |-> "news-listening", words |-> <<"ant", "bee">>, param |-> ToString(4),
       challenge |-> <<>>],
      [op |-> "quiz", words |-> <<"bee", "ant">>, param |-> "",
       challenge |-> <<>>],
      [op |-> "image", words |-> <<"A title">>, param |-> "",
       challenge |-> <<>>],
      [op |-> "audio", words |-> <<"ant">>, param |-> "Kore",
       challenge |-> <<>>] }

\* the operations whose key is built from a word list
WordListOps == {"dictation", "listening", "news-listening", "quiz"}

\* KeyParts with the challengeWords of a dictation among the parts
KeyPartsWithChallenge(req) ==
    CASE req.op = "translation" -> <<"translation", req.words[1]>>
      [] req.op = "dictation" ->
            <<"dictation", req.param>> \o SortStrings(req.words)
                \o <<"challenge">> \o SortStrings(req.challenge)
      [] req.op = "listening" -> <<"listening", req.param>> \o SortStrings(req.words)
      [] req.op = "news-listening" ->
            <<"news-listening", req.param>> \o SortStrings(req.words)
      [] req.op = "quiz" -> <<"quiz">> \o SortStrings(req.words)
      [] req.op = "image" -> <<"image", req.words[1]>>
      [] req.op = "audio" -> <<"audio", req.param, req.words[1]>>

\* the parts each operation hands to createCacheKey
KeyParts(req) ==
    CASE req.op = "translation" -> <<"translation", req.words[1]>>
      [] req.op = "dictation" -> <<"dictation", req.param>> \o SortStrings(req.words)
      [] req.op = "listening" -> <<"listening", req.param>> \o SortStrings(req.words)
      [] req.op = "news-listening" ->
            <<"news-listening", req.param>> \o SortStrings(req.words)
      [] req.op = "quiz" -> <<"quiz">> \o SortStrings(req.words)
      [] req.op = "image" -> <<"image", req.words[1]>>
      [] req.op = "audio" -> <<"audio", req.param, req.words[1]>>

\* const cacheKey = createCacheKey([...]) of each operation
KeyOf(req) == createCacheKey(KeyParts(req))

GenKeys == { KeyOf(req) : req \in GenRequests }

\* the orders [...].sort(() => Math.random() - 0.5) can leave a list in
ShuffledOrders(ws) ==
    { [i \in 1..Len(ws) |-> ws[p[i]]] : p \in Shuffles(Len(ws)) }

\* What the external call of a request can come to: it throws; it yields
\* nothing usable (an empty text, a text or JSON not in the expected format,
\* no inlineData part, no audio data); an image part with empty data; or a
\* usable payload.
Responses(req) ==
    {[kind |-> "throws", value |-> Undefined]} \cup
    CASE req.op = "translation" ->
            { [kind |-> "unusable", value |-> Str("")],
              [kind |-> "ok", value |-> Str("hormiga")] }
      [] req.op = "dictation" ->
            {[kind |-> "unusable", value |-> Undefined]} \cup
            { [kind |-> "ok", value |-> Obj("A title", bank)] :
                bank \in ShuffledOrders(SortStrings(req.words)) }
      [] req.op \in {"listening", "news-listening", "quiz"} ->
            { [kind |-> "unusable", value |-> Undefined],
              [kind |-> "ok", value |-> Obj("An exercise", <<>>)] }
      [] req.op = "image" ->
            { [kind |-> "unusable", value |-> Undefined],
              [kind |-> "empty", value |-> Str("")],
              [kind |-> "ok", value |-> Str("iVBORw0KGgo=")] }
      [] req.op = "audio" ->
            { [kind |-> "unusable", value |-> Str("")],
              [kind |-> "ok", value |-> Str("UklGRg==")] }

\* a hit test that takes strings only
CacheHitStringsOnly(cached) == cached.type = "string" /\ cached.text # ""

\* if (cached)
CacheHit(cached) == Truthy(cached)

\* what a cache hit returns, `bank` being the new order of shuffledWords
OnHit(req, cached, bank) ==
    IF req.op = "dictation" THEN [cached EXCEPT !.bank = bank] ELSE cached

\* the value of the catch block of an operation
OnCatch(req) ==
    IF req.op = "translation" THEN Str("Error fetching translation.") ELSE Null

\* AfterCall with the cache write made on every path, the failures included
AfterCallWritingAlways(req, resp, store, t, accepts) ==
    LET v == IF resp.kind \in {"throws", "unusable"} THEN OnCatch(req)
             ELSE resp.value
        w == setCache(store, KeyOf(req), v, t, accepts)
    IN  [result |-> v, store |-> w.store, wrote |-> TRUE, accepted |-> accepts]

\* The body of an operation after its external call: the value returned, the
\* storage left, and whether a cache write was made and accepted.
AfterCall(req, resp, store, t, accepts) ==
    LET noWrite(v) == [result |-> v, store |-> store, wrote |-> FALSE,
                       accepted |-> FALSE]
        write(v) == LET w == setCache(store, KeyOf(req), v, t, accepts)
                    IN  [result |-> IF w.threw THEN OnCatch(req) ELSE v,
                         store |-> w.store, wrote |-> TRUE,
                         accepted |-> accepts]
    IN  IF resp.kind = "throws" THEN noWrite(OnCatch(req))
        ELSE CASE req.op = "translation" ->
                    IF Truthy(resp.value) THEN write(resp.value)
                    ELSE noWrite(resp.value)
               [] req.op = "dictation" ->
                    IF resp.kind = "ok" THEN write(resp.value) ELSE noWrite(Null)
               [] req.op \in {"listening", "news-listening", "quiz"} ->
                    IF resp.kind = "ok" THEN write(resp.value)
                    ELSE noWrite(OnCatch(req))
               [] req.op = "image" ->
                    IF resp.kind = "unusable" THEN noWrite(Null)
                    ELSE write(resp.value)
               [] req.op = "audio" ->
                    IF Truthy(resp.value) THEN write(resp.value)
                    ELSE noWrite(Null)

\* ------------------------------------------------------------------------
\* The generation operations as a state machine: two calls, the cache between
\* them and the clock
\* ------------------------------------------------------------------------
Slots == {1, 2}

NoResponse == [kind |-> "none", value |-> Undefined]

IdleRequest ==
    [pc |-> "idle", req |-> [op |-> "", words |-> <<>>, param |-> "", challenge |-> <<>>],
     key |-> "", issuedAt |-> 0, seen |-> NoItem, cached |-> Undefined,
     overlaps |-> FALSE, calls |-> 0, result |-> Undefined,
     resp |-> NoResponse, wrote |-> FALSE, accepted |-> FALSE,
     rank |-> 0]

\* the calls of the same key that have not settled yet
Pending(key) == { s \in Slots : requests[s].pc = "awaiting" /\ requests[s].key = key }

\* the number of calls that have returned
Returned == Cardinality({ s \in Slots : requests[s].pc = "done" })

InitGen ==
    /\ words = <<>> /\ selCount = 0
    /\ selectedWords = <<>> /\ challengeWords = <<>>
    /\ storage = [k \in GenKeys |-> NoItem]
    /\ now = 0
    /\ lastOp = NoOp
    /\ requests = [s \in Slots |-> IdleRequest]
    /\ AppIdle

\* the call finds a usable cached value and returns it without awaiting
StartHit(slot, req) ==
    LET g == getCache(storage, KeyOf(req), now)
    IN  /\ requests[slot].pc = "idle"
        /\ \A s \in Slots : s < slot => requests[s].pc # "idle"
        /\ CacheHit(g.result)
        /\ \E bank \in ShuffledOrders(g.result.bank) :
             requests' = [requests EXCEPT ![slot] =
                 [IdleRequest EXCEPT !.pc = "done", !.req = req,
                     !.key = KeyOf(req), !.issuedAt = now,
                     !.seen = storage[KeyOf(req)], !.cached = g.result,
                     !.result = OnHit(req, g.result, bank),
                     !.rank = Returned + 1]]
        /\ storage' = g.store
        /\ UNCHANGED <<now, lastOp, selVars, appVars>>

\* the call misses the cache and dispatches the external call
StartMiss(slot, req) ==
    LET g == getCache(storage, KeyOf(req), now)
    IN  /\ requests[slot].pc = "idle"
        /\ \A s \in Slots : s < slot => requests[s].pc # "idle"
        /\ ~CacheHit(g.result)
        /\ requests' = [requests EXCEPT ![slot] =
                 [IdleRequest EXCEPT !.pc = "awaiting", !.req = req,
                     !.key = KeyOf(req), !.issuedAt = now,
                     !.seen = storage[KeyOf(req)], !.cached = g.result,
                     !.overlaps = (Pending(KeyOf(req)) # {}), !.calls = 1]]
        /\ storage' = g.store
        /\ UNCHANGED <<now, lastOp, selVars, appVars>>

\* the external call settles and the rest of the operation runs
Respond(slot, resp, accepts) ==
    LET r == requests[slot]
        a == AfterCall(r.req, resp, storage, now, accepts)
    IN  /\ r.pc = "awaiting"
        /\ resp \in Responses(r.req)
        /\ requests' = [requests EXCEPT ![slot] =
                 [r EXCEPT !.pc = "done", !.result = a.result, !.resp = resp,
                     !.wrote = a.wrote, !.accepted = a.accepted,
                     !.rank = Returned + 1]]
        /\ storage' = a.store
        /\ UNCHANGED <<now, lastOp, selVars, appVars>>

AllResponses == UNION { Responses(req) : req \in GenRequests }

TickGen == Tick /\ UNCHANGED <<requests, appVars>>

NextGen ==
    \/ \E slot \in Slots, req \in GenRequests : StartHit(slot, req)
    \/ \E slot \in Slots, req \in GenRequests : StartMiss(slot, req)
    \/ \E slot \in Slots, resp \in AllResponses, accepts \in BOOLEAN :
          Respond(slot, resp, accepts)
    \/ TickGen

SpecGen == InitGen /\ [][NextGen]_vars

\* ------------------------------------------------------------------------
\* One call of a generation operation over a storage that holds, under the
\* key of some operation, a text that is not the JSON of a cache entry
\* ------------------------------------------------------------------------
\* such texts under the key of a request: no JSON, `null`, `{}`, and an object
\* with a data property (a payload of the operation) but no timestamp
CorruptItems(req) ==
    {Garbage, JsonNull, Unstamped(Undefined)} \cup
    { Unstamped(resp.value) : resp \in { x \in Responses(req) : x.kind = "ok" } }

InitCorrupt ==
    /\ words = <<>> /\ selCount = 0
    /\ selectedWords = <<>> /\ challengeWords = <<>>
    /\ \E req \in GenRequests :
        \E item \in CorruptItems(req) :
          storage = [k \in GenKeys |-> IF k = KeyOf(req) THEN item ELSE NoItem]
    /\ now = 0
    /\ lastOp = NoOp
    /\ requests = [s \in Slots |-> IdleRequest]
    /\ AppIdle

NextCorrupt ==
    \/ \E req \in GenRequests : StartHit(1, req)
    \/ \E req \in GenRequests : StartMiss(1, req)
    \/ \E resp \in AllResponses, accepts \in BOOLEAN : Respond(1, resp, accepts)
    \/ TickGen

SpecCorrupt == InitCorrupt /\ [][NextCorrupt]_vars

\* ------------------------------------------------------------------------
\* The cache keys of two calls: the operations are given words of the pool
\* (any text the user has added, ':' included), in any order
\* ------------------------------------------------------------------------
MaxWords == 2       \* longest word list of a call

KeyWords == {"a", "a:b", "b:c", "c"}

AVAILABLE_VOICES == {"Kore", "Puck", "Charon", "Fenrir", "Zephyr"}

\* the lists of 1..MaxWords different words
WordLists ==
    UNION { { ws \in [1..n -> KeyWords] : \A i, j \in 1..n : ws[i] = ws[j] => i = j }
            : n \in 1..MaxWords }

KeyRequests ==
    { [op |-> "dictation", words |-> ws, param |-> "Basic"] : ws \in WordLists } \cup
    { [op |-> "listening", words |-> ws, param |-> ToString(4)] : ws \in WordLists } \cup
    { [op |-> "news-listening", words |-> ws, param |-> ToString(4)] :
        ws \in WordLists } \cup
    { [op |-> "quiz", words |-> ws, param |-> ""] : ws \in WordLists } \cup
    { [op |-> "translation", words |-> <<w>>, param |-> ""] : w \in KeyWords } \cup
    { [op |-> "image", words |-> <<w>>, param |-> ""] : w \in KeyWords } \cup
    { [op |-> "audio", words |-> <<w>>, param |-> v] :
        w \in KeyWords, v \in AVAILABLE_VOICES }

InitKeys ==
    /\ words = <<>> /\ selCount = 0
    /\ selectedWords = <<>> /\ challengeWords = <<>>
    /\ storage = [k \in CacheKeys |-> NoItem]
    /\ now = 0
    /\ lastOp = NoOp
    /\ requests = <<>>
    /\ AppIdle

\* a call computes its cache key
BuildKey(req) ==
    /\ Len(requests) < 2
    /\ requests' = Append(requests, [req |-> req, parts |-> KeyParts(req),
                                      key |-> KeyOf(req)])
    /\ UNCHANGED <<selVars, cacheVars, appVars>>

NextKeys == \E req \in KeyRequests : BuildKey(req)

SpecKeys == InitKeys /\ [][NextKeys]_vars

\* ------------------------------------------------------------------------
\* The selector as a state machine: a pool is drawn, then one call is made
\* ------------------------------------------------------------------------
InitSelector ==
    /\ words \in Pools
    /\ selCount = 0
    /\ selectedWords = <<>>
    /\ challengeWords = <<>>
    /\ storage = [k \in CacheKeys |-> NoItem]
    /\ now = 0
    /\ lastOp = NoOp
    /\ requests = <<>>
    /\ AppIdle

\* a call whose three passes fill the selection: the shuffle is not reached
SelectDirect(count) ==
    /\ selCount = 0
    /\ ~NeedsShuffle(words, count)
    /\ LET r == selectWordsForLevel(words, count, <<>>)
       IN  /\ selectedWords' = WordsOf(words, r.selectedWords)
           /\ challengeWords' = WordsOf(words, r.challengeWords)
    /\ words' = wordsAfterSelect(words, count, <<>>)
    /\ selCount' = count
    /\ UNCHANGED <<cacheVars, requests, appVars>>

\* a call that falls back to the shuffled pool
SelectShuffled(count) ==
    /\ selCount = 0
    /\ NeedsShuffle(words, count)
    /\ \E shuffled \in Shuffles(Len(words)) :
         LET r == selectWordsForLevel(words, count, shuffled)
         IN  /\ selectedWords' = WordsOf(words, r.selectedWords)
             /\ challengeWords' = WordsOf(words, r.challengeWords)
             /\ words' = wordsAfterSelect(words, count, shuffled)
    /\ selCount' = count
    /\ UNCHANGED <<cacheVars, requests, appVars>>

NextSelector ==
    \E count \in 1..MaxCount : SelectDirect(count) \/ SelectShuffled(count)

SpecSelector == InitSelector /\ [][NextSelector]_vars

\* ------------------------------------------------------------------------
\* App: the word pool under ManageWords (add, upload, remove) and
\* finishSession, and the session history
\* ------------------------------------------------------------------------
MaxSessions == 2    \* sessions finished in a behaviour

\* the texts a user enters, trimmed and lowercased, by their rank in the order
\* of localeCompare
Texts == {1, 2}

\* the contents of an uploaded file after split, trim, toLowerCase and filter
Files == UNION { [1..n -> Texts] : n \in 1..2 }

\* the wordsToGuess of a dictation (the matches of the words in the generated
\* text, a word can occur twice) and whether each blank was answered right
Guesses == UNION { [1..n -> Texts] : n \in 1..2 }

OtherSessions == {"Listening", "Quiz"}

\* the history that useLocalStorage finds stored: none, or one older session
StoredHistories == {<<>>, <<[NoResult EXCEPT !.type = "NewsListening"]>>}

\* the Word object that handleAddWord and handleFileUpload create
NewWord(text, t) ==
    [text |-> text, errorCount |-> 0, usageCount |-> 0, lastUsed |-> NoStamp,
     dateAdded |-> t]

\* [...].sort((a, b) => a.text.localeCompare(b.text))
SortByText(ws) == StableSort(ws, [w \in Range(ws) |-> w.text])

RECURSIVE Dedup(_)
\* [...new Set(list)]: the first occurrence of each element, in order
Dedup(list) ==
    IF list = <<>> THEN <<>>
    ELSE LET front == Dedup(SubSeq(list, 1, Len(list) - 1))
         IN  IF list[Len(list)] \in Range(front) THEN front
             ELSE Append(front, list[Len(list)])

\* uniqueNewWords of handleFileUpload, against the pool of its closure
uniqueNewWords(pool, file) ==
    Dedup(FilterSeq(file, Texts \ { pool[i].text : i \in DOMAIN pool }))

\* prevWords => prevWords.filter(w => w.text !== wordToRemove)
removeWord(pool, wordToRemove) ==
    FilterSeq(pool, { w \in Range(pool) : w.text # wordToRemove })

\* the errors that handleSubmit collects: the word of each blank whose input
\* does not match, in the order of the blanks
errorsOf(guess, correct) ==
    LET wrong == FilterSeq([i \in 1..Len(guess) |-> i],
                           { i \in 1..Len(guess) : ~correct[i] })
    IN  [k \in 1..Len(wrong) |-> guess[wrong[k]]]

\* the HistoryEntry of DictationPractice.handleSubmit at time t
handleSubmit(guess, correct, t) ==
    [id |-> t, type |-> "Dictation", errors |-> errorsOf(guess, correct),
     totalWords |-> Len(guess),
     correctWords |-> Len(guess) - Len(errorsOf(guess, correct))]

\* the HistoryEntry of the other practice components
otherResult(type, t) == [NoResult EXCEPT !.id = t, !.type = type]

\* an errorCount that finishSession never raises
ErrorIncrementNever(word, errors) == 0

\* wasError ? (word.errorCount || 0) + 1 : (word.errorCount || 0), with
\* errorWords the Set of the errors' words
ErrorIncrement(word, errors) ==
    IF word.text \in Range(errors) THEN 1 ELSE 0

\* the history left when only the new result is kept
keepResultOnly(prevHistory, result) == <<result>>

\* prevHistory => [result, ...prevHistory]
pushHistory(prevHistory, result) == <<result>> \o prevHistory

\* the pool that the setWords of finishSession leaves at time t:
\* dictationWords is built from result.errors
finishSession(pool, result, t) ==
    IF result.type # "Dictation" THEN pool
    ELSE LET dictationWords == Range(result.errors)
         IN  [i \in 1..Len(pool) |->
                IF pool[i].text \notin dictationWords THEN pool[i]
                ELSE [pool[i] EXCEPT
                        !.usageCount = @ + 1,
                        !.lastUsed = t,
                        !.errorCount = @ + ErrorIncrement(pool[i], result.errors)]]

\* the pool starts empty, at a clock reading after the epoch (a lastUsed of
\* NoStamp stands for null); the clock has moved on after every session
InitPool ==
    /\ words = <<>> /\ selCount = 0
    /\ selectedWords = <<>> /\ challengeWords = <<>>
    /\ storage = [k \in CacheKeys |-> NoItem]
    /\ now = 1
    /\ lastOp = NoOp
    /\ requests = <<>>
    /\ history \in StoredHistories
    /\ adding = NoAdd
    /\ uploading = NoUpload
    /\ finished = NoFinish
    /\ practice = NoPractice

\* handleAddWord up to its await: the input is enabled, the word is new
AddStart(text) ==
    /\ ~adding.busy /\ ~uploading.busy
    /\ \A i \in DOMAIN words : words[i].text # text
    /\ adding' = [busy |-> TRUE, word |-> text]
    /\ finished' = NoFinish
    /\ UNCHANGED <<selVars, cacheVars, requests, practice, history, uploading>>

\* handleAddWord after its await
AddFinish ==
    /\ adding.busy
    /\ words' = SortByText(Append(words, NewWord(adding.word, now)))
    /\ adding' = NoAdd
    /\ finished' = NoFinish
    /\ UNCHANGED <<selCount, selectedWords, challengeWords, cacheVars, requests, practice,
                   history, uploading>>

\* handleFileUpload up to its await: the button is enabled, the file holds
\* words that the pool of the closure does not
UploadStart(file) ==
    /\ ~uploading.busy
    /\ uniqueNewWords(words, file) # <<>>
    /\ uploading' = [busy |-> TRUE, words |-> uniqueNewWords(words, file)]
    /\ finished' = NoFinish
    /\ UNCHANGED <<selVars, cacheVars, requests, practice, history, adding>>

\* handleFileUpload after its await
UploadFinish ==
    /\ uploading.busy
    /\ words' = SortByText(words \o [k \in 1..Len(uploading.words) |->
                                       NewWord(uploading.words[k], now)])
    /\ uploading' = NoUpload
    /\ finished' = NoFinish
    /\ UNCHANGED <<selCount, selectedWords, challengeWords, cacheVars, requests, practice,
                   history, adding>>

RemoveWord(text) ==
    /\ \E i \in DOMAIN words : words[i].text = text
    /\ words' = removeWord(words, text)
    /\ finished' = NoFinish
    /\ UNCHANGED <<selCount, selectedWords, challengeWords, cacheVars, requests, practice,
                   history, adding, uploading>>

\* finishSession(result)
Finish(result, guess, correct) ==
    /\ now <= MaxSessions
    /\ history' = pushHistory(history, result)
    /\ words' = finishSession(words, result, now)
    /\ finished' = [is |-> TRUE, guess |-> guess, correct |-> correct,
                    result |-> result, time |-> now, wordsBefore |-> words,
                    historyBefore |-> history]
    /\ now' = now + 1
    /\ UNCHANGED <<selCount, selectedWords, challengeWords, storage, lastOp,
                   requests, practice, adding, uploading>>

\* a dictation is submitted
FinishDictation(guess, correct) ==
    Finish(handleSubmit(guess, correct, now), guess, correct)

\* a listening exercise, news exercise or quiz is submitted
FinishOther(type) == Finish(otherResult(type, now), <<>>, <<>>)

NextPool ==
    \/ \E text \in Texts : AddStart(text)
    \/ AddFinish
    \/ \E file \in Files : UploadStart(file)
    \/ UploadFinish
    \/ \E text \in Texts : RemoveWord(text)
    \/ \E guess \in Guesses :
         \E correct \in [1..Len(guess) -> BOOLEAN] : FinishDictation(guess, correct)
    \/ \E type \in OtherSessions : FinishOther(type)

SpecPool == InitPool /\ [][NextPool]_vars

\* ------------------------------------------------------------------------
\* Repeated dictation sessions on one pool: handleLevelSelect selects the
\* words, the dictation is submitted, finishSession scores the pool. The
\* history, which grows with every session, is not followed here.
\* ------------------------------------------------------------------------
\* the pools of words that were never used in a session
FreshPools ==
    { p \in Pools : \A i \in DOMAIN p : p[i].errorCount = 0 /\ p[i].lastUsed = NoStamp }

\* the rank of a finish time that is later than every lastUsed of the pool
LaterStamp(pool) ==
    1 + Cardinality({ pool[i].lastUsed : i \in DOMAIN pool } \ {NoStamp})

\* lastUsed kept as ranks: the stamps in use renumbered 1, 2, ... in their
\* order (timestamps are compared with each other only)
Restamp(pool) ==
    LET used == { pool[i].lastUsed : i \in DOMAIN pool } \ {NoStamp}
        rank(u) == Cardinality({ v \in used : v <= u })
    IN  [i \in DOMAIN pool |->
           IF pool[i].lastUsed = NoStamp THEN pool[i]
           ELSE [pool[i] EXCEPT !.lastUsed = rank(@)]]

InitRotation ==
    /\ words \in FreshPools
    /\ selCount = 0
    /\ selectedWords = <<>>
    /\ challengeWords = <<>>
    /\ storage = [k \in CacheKeys |-> NoItem]
    /\ now = 0
    /\ lastOp = NoOp
    /\ requests = <<>>
    /\ AppIdle

\* handleLevelSelect with a level of `count` words: the pool is large enough
\* and the words are selected
StartDictation(count) ==
    /\ selCount = 0
    /\ Len(words) >= count
    /\ \E shuffled \in Shuffles(Len(words)) :
         \E r \in { selectWordsForLevel(words, count, shuffled) } :
             /\ selectedWords' = WordsOf(words, r.selectedWords)
             /\ challengeWords' = WordsOf(words, r.challengeWords)
             /\ words' = wordsAfterSelect(words, count, shuffled)
    /\ selCount' = count
    /\ UNCHANGED <<cacheVars, requests, appVars>>

\* the dictation (every selected word occurs once in its text) is submitted
\* with the answers `correct`, and finishSession scores the pool; errorCount
\* is followed up to MaxErr
SubmitDictation(correct) ==
    LET guess == [i \in DOMAIN selectedWords |-> selectedWords[i].text]
        stamp == LaterStamp(words)
    IN  /\ selCount > 0
        /\ \A i \in DOMAIN guess :
             ~correct[i] => selectedWords[i].errorCount < MaxErr
        /\ \E result \in { handleSubmit(guess, correct, stamp) } :
             \E scored \in { finishSession(words, result, stamp) } :
                 words' = Restamp(scored)
        /\ selCount' = 0
        /\ UNCHANGED <<selectedWords, challengeWords, cacheVars, requests, appVars>>

NextRotation ==
    \/ \E count \in 1..MaxCount : StartDictation(count)
    \/ \E correct \in [DOMAIN selectedWords -> BOOLEAN] : SubmitDictation(correct)

\* every session that can start does start, every dictation is submitted
SpecRotation == InitRotation /\ [][NextRotation]_vars /\ WF_vars(NextRotation)

\* ------------------------------------------------------------------------
\* PracticeHub: the four handlers that start a practice
\* ------------------------------------------------------------------------
MaxHubPool == 22
MaxHubErrored == 2

DICTATION_LEVELS ==
    [Basic |-> 8, Intermediate |-> 15, Advanced |-> 20, Strategic |-> 22]

\* the buttons of the hub: a handler and its argument
HubCalls ==
    { [handler |-> "handleLevelSelect", param |-> level] :
        level \in DOMAIN DICTATION_LEVELS }
    \cup { [handler |-> h, param |-> ToString(questionCount)] :
             h \in {"handleStartListening", "handleStartNewsListening"},
             questionCount \in {4, 8} }
    \cup { [handler |-> "handleStartQuiz", param |-> ""] }

\* a hub that asks for no minimum
NoMinimum(call) == 0

\* the pool size below which the handler sets its error and returns
wordsNeeded(call) ==
    CASE call.handler = "handleLevelSelect" -> DICTATION_LEVELS[call.param]
      [] call.handler \in {"handleStartListening", "handleStartNewsListening"} -> 10
      [] call.handler = "handleStartQuiz" -> 5

\* the count the handler passes to selectWordsForLevel
countSelected(call) ==
    CASE call.handler = "handleLevelSelect" -> DICTATION_LEVELS[call.param]
      [] call.handler \in {"handleStartListening", "handleStartNewsListening"} -> 15
      [] call.handler = "handleStartQuiz" -> 10

\* the generation operation of the handler
OperationOf(call) ==
    CASE call.handler = "handleLevelSelect" -> "dictation"
      [] call.handler = "handleStartListening" -> "listening"
      [] call.handler = "handleStartNewsListening" -> "news-listening"
      [] call.handler = "handleStartQuiz" -> "quiz"

\* a pool of n words of which the first k have one error each
HubPool(n, k) ==
    [i \in 1..n |->
        IF i <= k
        THEN [text |-> TextAt(i), errorCount |-> 1, usageCount |-> 1,
              lastUsed |-> 1, dateAdded |-> 1]
        ELSE NewWord(TextAt(i), 1 + (i % 2))]

HubPools ==
    { HubPool(n, k) : n \in 0..MaxHubPool, k \in 0..MaxHubErrored }

\* three of the orders the random sort can leave n words in: as they were,
\* reversed, and moved round by one
HubShuffles(n) ==
    { [i \in 1..n |-> i], [i \in 1..n |-> n + 1 - i], [i \in 1..n |-> (i % n) + 1] }

\* the hub as it is rendered first: no error, not loading
HubIdle ==
    [handler |-> "none", param |-> "", error |-> "", isLoading |-> FALSE,
     started |-> FALSE]

InitHub ==
    /\ words \in HubPools
    /\ selCount = 0
    /\ selectedWords = <<>>
    /\ challengeWords = <<>>
    /\ storage = [k \in CacheKeys |-> NoItem]
    /\ now = 0
    /\ lastOp = HubIdle
    /\ requests = <<>>
    /\ AppIdle

\* a button of the hub is pressed (the buttons are rendered for a pool that
\* is not empty, while nothing is loading): the pool is too small and the
\* handler sets its error and returns; selCount, selectedWords and requests
\* hold the calls this handler has made
TooFewWords(call) ==
    /\ Len(words) > 0 /\ ~lastOp.isLoading /\ ~lastOp.started
    /\ Len(words) < wordsNeeded(call)
    /\ lastOp' = [HubIdle EXCEPT !.handler = call.handler, !.param = call.param,
                                 !.error = "not enough words"]
    /\ selCount' = 0
    /\ selectedWords' = <<>>
    /\ challengeWords' = <<>>
    /\ requests' = <<>>
    /\ UNCHANGED <<words, storage, now, appVars>>

\* a button of the hub is pressed and the pool is large enough: the words are
\* selected and the generation is requested
StartPractice(call) ==
    /\ Len(words) > 0 /\ ~lastOp.isLoading /\ ~lastOp.started
    /\ Len(words) >= wordsNeeded(call)
    /\ \E shuffled \in HubShuffles(Len(words)) :
         \E r \in { selectWordsForLevel(words, countSelected(call), shuffled) } :
             /\ selectedWords' = WordsOf(words, r.selectedWords)
             /\ challengeWords' = WordsOf(words, r.challengeWords)
             /\ words' = wordsAfterSelect(words, countSelected(call), shuffled)
             /\ requests' =
                  << [op |-> OperationOf(call),
                      words |-> [k \in 1..Len(r.selectedWords) |->
                                    words[r.selectedWords[k]].text],
                      param |-> call.param,
                      challenge |->
                          IF call.handler = "handleLevelSelect"
                          THEN [k \in 1..Len(r.challengeWords) |->
                                   words[r.challengeWords[k]].text]
                          ELSE <<>>] >>
    /\ selCount' = countSelected(call)
    /\ lastOp' = [HubIdle EXCEPT !.handler = call.handler, !.param = call.param,
                                 !.isLoading = TRUE]
    /\ UNCHANGED <<storage, now, appVars>>

\* the generation settles: the practice starts, or the handler sets its
\* error; the spinner goes
GenerationSettles(ok) ==
    /\ lastOp.isLoading
    /\ lastOp' = [lastOp EXCEPT !.isLoading = FALSE, !.started = ok,
                                !.error = IF ok THEN "" ELSE "failed to generate"]
    /\ UNCHANGED <<selVars, storage, now, requests, appVars>>

NextHub ==
    \/ \E call \in HubCalls : TooFewWords(call)
    \/ \E call \in HubCalls : StartPractice(call)
    \/ \E ok \in BOOLEAN : GenerationSettles(ok)

SpecHub == InitHub /\ [][NextHub]_vars

\* ------------------------------------------------------------------------
\* The practice components and their audio: DictationPractice,
\* ListeningPractice and NewsListeningPractice each fetch in an effect that
\* runs when the component mounts and when selectedVoice changes
\* ------------------------------------------------------------------------
MaxVoiceChanges == 2

PracticeKinds == {"Dictation", "Listening", "NewsListening"}

\* the voices the user moves between
PracticeVoices == {"Kore", "Puck"}

\* audioUrl: null; wordAudios: {}
NoAudio == ""

\* the audio (an object URL) made from what generateAudio returned for a
\* voice: of the state of the component only the voice is followed
AudioOf(voice) == voice

\* a call of fetchAudio, awaiting generateAudio at `stage`
Fetch(id, voice) == [id |-> id, selectedVoice |-> voice, stage |-> "main"]

InitPractice ==
    /\ words = <<>> /\ selCount = 0
    /\ selectedWords = <<>> /\ challengeWords = <<>>
    /\ storage = [k \in CacheKeys |-> NoItem]
    /\ now = 0
    /\ lastOp = NoOp
    /\ requests = <<>>
    /\ AppIdle

\* the component is rendered first: useState(null), useState({}),
\* useState(true), and the effect calls fetchAudio
Mount(kind, voice) ==
    /\ practice.kind = "none"
    /\ practice' = [kind |-> kind, selectedVoice |-> voice, audioUrl |-> NoAudio,
                    wordAudios |-> NoAudio, isLoadingAudio |-> TRUE,
                    fetches |-> {Fetch(1, voice)}, issued |-> 1, settled |-> ""]
    /\ UNCHANGED <<selVars, cacheVars, requests, history, adding, uploading, finished>>

\* the user selects another voice: the effect runs again and calls
\* fetchAudio, whose first statement is setIsLoadingAudio(true); the call
\* made before goes on
ChangeVoice(voice) ==
    /\ practice.kind # "none"
    /\ voice # practice.selectedVoice
    /\ practice.issued <= MaxVoiceChanges
    /\ practice' = [practice EXCEPT
                      !.selectedVoice = voice,
                      !.isLoadingAudio = TRUE,
                      !.fetches = @ \cup {Fetch(practice.issued + 1, voice)},
                      !.issued = @ + 1]
    /\ UNCHANGED <<selVars, cacheVars, requests, history, adding, uploading, finished>>

\* ListeningPractice and NewsListeningPractice: generateAudio settles; with
\* audio the url is set and fetchAudio returns its cleanup, without audio
\* setIsLoadingAudio(false) is reached
ListeningAudioSettles(fetch, ok) ==
    /\ practice.kind \in {"Listening", "NewsListening"}
    /\ fetch \in practice.fetches
    /\ practice' = [practice EXCEPT
                      !.audioUrl = IF ok THEN AudioOf(fetch.selectedVoice) ELSE @,
                      !.isLoadingAudio = IF ok THEN @ ELSE FALSE,
                      !.fetches = @ \ {fetch},
                      !.settled = IF ok THEN "ok" ELSE "failed"]
    /\ UNCHANGED <<selVars, cacheVars, requests, history, adding, uploading, finished>>

\* DictationPractice: generateAudio of the full text settles, and fetchAudio
\* goes on to the audios of the words
MainAudioSettles(fetch, ok) ==
    /\ practice.kind = "Dictation"
    /\ fetch \in practice.fetches /\ fetch.stage = "main"
    /\ practice' = [practice EXCEPT
                      !.audioUrl = IF ok THEN AudioOf(fetch.selectedVoice) ELSE @,
                      !.fetches = (@ \ {fetch}) \cup {[fetch EXCEPT !.stage = "words"]}]
    /\ UNCHANGED <<selVars, cacheVars, requests, history, adding, uploading, finished>>

\* DictationPractice: the last generateAudio of the loop over shuffledWords
\* settles (ok: the words have their audio), then setWordAudios and
\* setIsLoadingAudio(false)
WordAudiosSettle(fetch, ok) ==
    /\ practice.kind = "Dictation"
    /\ fetch \in practice.fetches /\ fetch.stage = "words"
    /\ practice' = [practice EXCEPT
                      !.wordAudios = IF ok THEN AudioOf(fetch.selectedVoice) ELSE NoAudio,
                      !.isLoadingAudio = FALSE,
                      !.fetches = @ \ {fetch},
                      !.settled = IF ok THEN "ok" ELSE "failed"]
    /\ UNCHANGED <<selVars, cacheVars, requests, history, adding, uploading, finished>>

NextPractice ==
    \/ \E kind \in PracticeKinds, voice \in PracticeVoices : Mount(kind, voice)
    \/ \E voice \in PracticeVoices : ChangeVoice(voice)
    \/ \E fetch \in practice.fetches, ok \in BOOLEAN : ListeningAudioSettles(fetch, ok)
    \/ \E fetch \in practice.fetches, ok \in BOOLEAN : MainAudioSettles(fetch, ok)
    \/ \E fetch \in practice.fetches, ok \in BOOLEAN : WordAudiosSettle(fetch, ok)

SpecPractice == InitPractice /\ [][NextPractice]_vars

\* ------------------------------------------------------------------------
\* Properties of the selector
\* ------------------------------------------------------------------------
PoolWords == Range(words)

Distinct(sel) ==
    \A i, j \in 1..Len(sel) : sel[i].text = sel[j].text => i = j

Errored(pool) == { i \in 1..Len(pool) : pool[i].errorCount > 0 }

\* the least q with q >= 0.4 * c, computed in integers
QuotaOf(c) == CHOOSE q \in 0..c : 5 * q >= 2 * c /\ 5 * (q - 1) < 2 * c

\* C1: for a pool of distinct words and a count c with 1 <= c <= |P|, the
\* selection has exactly c elements, pairwise distinct, all members of P.
C1_ExactCount ==
    (selCount >= 1 /\ selCount <= Len(words)) =>
        /\ Len(selectedWords) = selCount
        /\ Distinct(selectedWords)
        /\ Range(selectedWords) \subseteq PoolWords

\* a call with c = |P| = 3 on a pool of errored words only: the errored quota
\* is 2, the third word comes from the random fill
C1_Witness ==
    /\ selCount = 3 /\ Len(words) = 3
    /\ \A i \in 1..3 : words[i].errorCount > 0
    /\ Len(selectedWords) = 3

\* C2: for a count c > |P| the selection holds every word of P exactly once
\* and nothing else; for the empty pool both results are empty.
C2_WholePool ==
    (selCount > Len(words)) =>
        /\ Len(selectedWords) = Len(words)
        /\ Distinct(selectedWords)
        /\ Range(selectedWords) = PoolWords
        /\ (words = <<>> => selectedWords = <<>> /\ challengeWords = <<>>)

\* a call with c = 4 on a pool of 2 errored words and 1 new word
C2_Witness ==
    /\ selCount = 4 /\ Len(words) = 3
    /\ Cardinality(Errored(words)) = 2
    /\ Len(selectedWords) = 3

\* C3: the first k = min(|errored|, ceil(0.4 c)) selected words are the k
\* words of highest errorCount > 0, in descending errorCount order, ties in
\* pool order.
C3_ErroredFirst ==
    (selCount >= 1) =>
        LET k == Min(Cardinality(Errored(words)), QuotaOf(selCount))
        IN  /\ Len(selectedWords) >= k
            /\ \A j \in 1..k : selectedWords[j].errorCount > 0
            /\ \A j \in 1..(k - 1) :
                  \/ selectedWords[j].errorCount > selectedWords[j + 1].errorCount
                  \/ /\ selectedWords[j].errorCount = selectedWords[j + 1].errorCount
                     /\ selectedWords[j].text < selectedWords[j + 1].text
            /\ \A i \in Errored(words) :
                  (\A j \in 1..k : selectedWords[j] # words[i]) =>
                      \A j \in 1..k :
                          \/ words[i].errorCount < selectedWords[j].errorCount
                          \/ /\ words[i].errorCount = selectedWords[j].errorCount
                             /\ words[i].text > selectedWords[j].text

\* a pool of three errored words, the highest count last, and a quota of 2
C3_Witness ==
    /\ selCount = 3 /\ Len(words) = 3
    /\ words[1].errorCount = 1 /\ words[2].errorCount = 1
    /\ words[3].errorCount = 2
    /\ selectedWords[1] = words[3] /\ selectedWords[2] = words[1]

\* C4: challengeWords is the subsequence of selectedWords with errorCount > 0.
C4_ChallengeWords ==
    (selCount >= 1) =>
        /\ \A i \in 1..Len(challengeWords) :
              /\ challengeWords[i].errorCount > 0
              /\ challengeWords[i] \in Range(selectedWords)
        /\ \A i \in 1..Len(selectedWords) :
              selectedWords[i].errorCount > 0 =>
                  selectedWords[i] \in Range(challengeWords)
        /\ Distinct(challengeWords)
        /\ \A i, j \in 1..Len(challengeWords) :
              i < j =>
                \E a, b \in 1..Len(selectedWords) :
                    /\ a < b
                    /\ selectedWords[a] = challengeWords[i]
                    /\ selectedWords[b] = challengeWords[j]

\* a selection that leaves an errored word of the pool out and holds both
\* an errored and a new word
C4_Witness ==
    /\ selCount = 2 /\ Len(words) = 3
    /\ Cardinality(Errored(words)) = 2
    /\ Len(challengeWords) = 1 /\ Len(selectedWords) = 2

NonErrored(pool) == { i \in 1..Len(pool) : pool[i].errorCount = 0 }

\* e: the number of words the errored pass takes
TakenErrored == Min(Cardinality(Errored(words)), QuotaOf(selCount))

\* the position of the selection at which the newest pass ends
NewestEnd ==
    Min(Min(TakenErrored + QuotaOf(selCount), selCount),
        TakenErrored + Cardinality(NonErrored(words)))

\* the position of the selection at which the least-recently-used pass ends
OtherEnd == Min(selCount, TakenErrored + Cardinality(NonErrored(words)))

\* the words at the positions from..to of the selection
Taken(from, to) == { selectedWords[j] : j \in from..to }

\* C22: after the e words of the errored pass the selection continues with
\* non-errored words in descending dateAdded order, skipping none, up to a
\* total of min(e + ceil(0.4 c), c) or until the non-errored words are
\* exhausted; no word of this pass has errorCount > 0.
C22_NewestPass ==
    selCount >= 1 =>
        /\ Len(selectedWords) >= NewestEnd
        /\ \A k \in (TakenErrored + 1)..NewestEnd :
             /\ selectedWords[k].errorCount = 0
             /\ \A w \in PoolWords \ Taken(TakenErrored + 1, k) :
                  w.errorCount = 0 => w.dateAdded <= selectedWords[k].dateAdded

\* one errored word, then the two non-errored words, the later added first
\* although it stands last in the pool
C22_Witness ==
    /\ selCount = 3 /\ Len(words) = 3
    /\ Cardinality(Errored(words)) = 1
    /\ Len(selectedWords) = 3
    /\ selectedWords[2].text = TextAt(3)
    /\ selectedWords[2].dateAdded > selectedWords[3].dateAdded

\* C23: after the errored and newest passes the slots up to count are filled
\* with not yet selected non-errored words in ascending lastUsed order, null
\* counting as the earliest time and ties in pool order, so a never-used
\* non-errored word is taken before any used one in this pass.
C23_LeastRecentlyUsedPass ==
    selCount >= 1 =>
        /\ Len(selectedWords) >= OtherEnd
        /\ \A k \in (NewestEnd + 1)..OtherEnd :
             /\ selectedWords[k].errorCount = 0
             /\ \A w \in PoolWords \ Taken(1, k) :
                  w.errorCount = 0 =>
                      \/ w.lastUsed > selectedWords[k].lastUsed
                      \/ /\ w.lastUsed = selectedWords[k].lastUsed
                         /\ w.text > selectedWords[k].text
             /\ \A j \in (NewestEnd + 1)..k :
                  selectedWords[k].lastUsed = NoStamp =>
                      selectedWords[j].lastUsed = NoStamp

\* three non-errored words and a count of 2: the newest pass takes one word,
\* the next pass takes a never-used word and leaves a used word that stands
\* before it in the pool
C23_Witness ==
    /\ selCount = 2 /\ Len(words) = 3
    /\ Errored(words) = {}
    /\ Len(selectedWords) = 2
    /\ selectedWords[2].lastUsed = NoStamp
    /\ \E w \in PoolWords \ Range(selectedWords) :
         w.lastUsed # NoStamp /\ w.text < selectedWords[2].text

\* C28: when the pool has at least count - min(|errored|, ceil(0.4 count))
\* non-errored words the result does not depend on the shuffle: a call with
\* any order of the shuffled copy returns the same selectedWords, and exactly
\* min(|errored|, ceil(0.4 count)) of them have errorCount > 0.
C28_ShuffleIndependent ==
    (selCount >= 1
     /\ Cardinality(NonErrored(words)) >= selCount - TakenErrored) =>
        /\ \A shuffled \in Shuffles(Len(words)) :
             WordsOf(words, selectWordsForLevel(words, selCount, shuffled).selectedWords)
                 = selectedWords
        /\ Cardinality({ k \in DOMAIN selectedWords :
                            selectedWords[k].errorCount > 0 }) = TakenErrored

\* two errored words of which the quota admits one, and one non-errored word:
\* a count of 2 is met without the shuffle
C28_Witness ==
    /\ selCount = 2 /\ Len(words) = 3
    /\ Cardinality(Errored(words)) = 2
    /\ Len(selectedWords) = 2
    /\ selectedWords[2].errorCount = 0

\* ------------------------------------------------------------------------
\* Properties of the practice hub
\* ------------------------------------------------------------------------
\* the button whose handler ran last
LastCall == [handler |-> lastOp.handler, param |-> lastOp.param]

\* the handler ended with the not-enough-words error before the selector and
\* before any generation request
Refused ==
    /\ lastOp.error = "not enough words"
    /\ selCount = 0
    /\ requests = <<>>

\* C25 as stated: in each of the four handlers selectWordsForLevel(count) is
\* reached only when the pool holds at least count words; otherwise the
\* not-enough-words error is shown and no generation request is made.
C25_CountChecked ==
    lastOp.handler # "none" =>
        /\ selCount > 0 => Len(words) >= selCount
        /\ Len(words) < countSelected(LastCall) => Refused

\* the minimum each handler asks for
MinimumFor(call) ==
    IF call.handler = "handleLevelSelect" THEN countSelected(call)
    ELSE IF call.handler = "handleStartQuiz" THEN 5
    ELSE 10

\* C25, amended: each handler checks the pool against its own minimum (the
\* count of the level for a dictation, 10 for the listening and the news
\* listening, 5 for the quiz) before the selector; below the minimum the
\* not-enough-words error is shown and no generation request is made, from
\* the minimum on the selector returns min(count, pool size) words.
C25_MinimumChecked ==
    lastOp.handler # "none" =>
        /\ selCount > 0 =>
             /\ Len(words) >= MinimumFor(LastCall)
             /\ Len(selectedWords) = Min(selCount, Len(words))
             /\ Len(requests) = 1
        /\ Len(words) < MinimumFor(LastCall) => Refused

\* a listening exercise requested with a pool of 12 words: the selector was
\* called with a count of 15 and returned the 12 words
C25_Witness ==
    /\ lastOp.handler = "handleStartListening"
    /\ Len(words) = 12
    /\ selCount = 15
    /\ Len(selectedWords) = 12
    /\ Len(requests) = 1 /\ Len(requests[1].words) = 12

\* ------------------------------------------------------------------------
\* Properties of the practice components
\* ------------------------------------------------------------------------
\* every call of fetchAudio has run to its end
FetchesComplete == practice.kind # "none" /\ practice.fetches = {}

\* C27: once a listening or news-listening exercise has started and its
\* audio generation has completed successfully, the component leaves the
\* loading state: with no fetch left in flight, isLoadingAudio is false and
\* audioUrl is set.
C27_LeavesLoading ==
    (/\ practice.kind \in {"Listening", "NewsListening"}
     /\ FetchesComplete
     /\ practice.settled = "ok") =>
        /\ ~practice.isLoadingAudio
        /\ practice.audioUrl # NoAudio

\* C29: in DictationPractice, when the voice changed while a fetch was in
\* flight, then after all fetches have completed the main audio and the
\* audios of the words are those of the voice selected last, never those of
\* a superseded fetch.
C29_LatestVoiceWins ==
    (practice.kind = "Dictation" /\ FetchesComplete) =>
        /\ practice.audioUrl \in {NoAudio, AudioOf(practice.selectedVoice)}
        /\ practice.wordAudios \in {NoAudio, AudioOf(practice.selectedVoice)}

\* ------------------------------------------------------------------------
\* Properties of the cache
\* ------------------------------------------------------------------------
IsEntry(itemStr) == itemStr.form = "json"

\* the state of a key at time t
Class(store, t, key) ==
    IF store[key] = NoItem THEN "absent"
    ELSE IF ~IsEntry(store[key]) THEN "corrupt"
    ELSE IF t - store[key].timestamp <= CACHE_TTL THEN "fresh"
    ELSE "stale"

\* the last operation was a getCache(k) right after a setCache(k, v)
GetRightAfterSet == lastOp.op = "get" /\ lastOp.prevSet.is

\* C5 as stated: getCache(k) right after setCache(k, v) returns v, whatever
\* was stored under k before.
C5_SetThenGet_Original ==
    GetRightAfterSet => lastOp.result = lastOp.prevSet.data

\* C5 as amended: getCache(k) right after a setCache(k, v) whose write the
\* storage accepted returns v, whatever was stored under k before.
C5_SetThenGet ==
    (GetRightAfterSet /\ lastOp.prevSet.accepted) =>
        lastOp.result = lastOp.prevSet.data

\* a get right after an accepted set, at a time later than one TTL
C5_Witness ==
    /\ GetRightAfterSet /\ lastOp.prevSet.accepted
    /\ lastOp.time > CACHE_TTL
    /\ lastOp.result = Str("hormiga")

C7_EvictOnRead ==
    (lastOp.op = "get") =>
        LET c == Class(lastOp.before, lastOp.time, lastOp.key)
        IN  /\ c = "stale" =>
                /\ storage[lastOp.key] = NoItem
                /\ \A k \in CacheKeys \ {lastOp.key} : storage[k] = lastOp.before[k]
            /\ c = "fresh" => storage = lastOp.before

\* a read 1 ms after the TTL has run out, with another entry in the cache
C7_Witness ==
    /\ lastOp.op = "get"
    /\ IsEntry(lastOp.before[lastOp.key])
    /\ lastOp.time - lastOp.before[lastOp.key].timestamp = 3600000 + 1
    /\ storage[lastOp.key] = NoItem
    /\ \E k \in CacheKeys : IsEntry(storage[k])

\* C8: per key the only transitions are: to fresh by a set on the key, fresh
\* to stale by the passage of time, stale to absent by a get on the key; get
\* never creates an entry, and nothing else changes a fresh entry.
C8_Transitions ==
    [][\A k \in CacheKeys :
         LET a == Class(storage, now, k)
             b == Class(storage', now', k)
         IN  /\ storage'[k] # storage[k] =>
                  \/ lastOp'.op = "set" /\ lastOp'.key = k /\ b = "fresh"
                  \/ /\ lastOp'.op = "get" /\ lastOp'.key = k
                     /\ a = "stale" /\ b = "absent"
             /\ (storage'[k] = storage[k] /\ a # b) =>
                    a = "fresh" /\ b = "stale" /\ lastOp'.op = "tick"]_vars

\* a stale entry replaced by a set, next to a fresh entry under another key
C8_Witness ==
    /\ lastOp.op = "set" /\ lastOp.accepted
    /\ Class(lastOp.before, lastOp.time, lastOp.key) = "stale"
    /\ Class(storage, now, lastOp.key) = "fresh"
    /\ \E k \in CacheKeys \ {lastOp.key} : Class(storage, now, k) = "fresh"

\* ------------------------------------------------------------------------
\* Properties of the generation operations
\* ------------------------------------------------------------------------
\* the call found, when it was issued, a result stored by an earlier
\* successful generation and still within its TTL
IssuedOnStored(r) ==
    /\ r.pc # "idle"
    /\ IsEntry(r.seen) /\ Truthy(r.seen.data)
    /\ r.issuedAt - r.seen.timestamp <= 3600000

SameUpToOrder(s, t) ==
    /\ Len(s) = Len(t)
    /\ \A x \in Range(s) \cup Range(t) :
         Cardinality({ i \in DOMAIN s : s[i] = x })
             = Cardinality({ i \in DOMAIN t : t[i] = x })

\* C9 as stated: once a generation has succeeded and its result is stored,
\* every later call with the same key within the TTL returns the stored
\* result without invoking the external service.
C9_ServedFromCache_Original ==
    \A slot \in Slots :
        IssuedOnStored(requests[slot]) =>
            /\ requests[slot].pc = "done" /\ requests[slot].calls = 0
            /\ requests[slot].result = requests[slot].seen.data

\* C9 as amended: such a call returns the stored result without invoking the
\* external service; for a dictation the returned copy holds the stored
\* shuffledWords in a new order, everything else as stored.
C9_ServedFromCache ==
    \A slot \in Slots :
        LET r == requests[slot]
        IN  IssuedOnStored(r) =>
              /\ r.pc = "done" /\ r.calls = 0
              /\ r.result.type = r.seen.data.type
              /\ r.result.text = r.seen.data.text
              /\ IF r.req.op = "dictation"
                 THEN SameUpToOrder(r.result.bank, r.seen.data.bank)
                 ELSE r.result.bank = r.seen.data.bank

\* the second of two calls with one key (from word lists in two orders) is
\* issued exactly one TTL after the first stored its result, and is served
C9_Witness ==
    /\ requests[1].pc = "done" /\ requests[1].wrote /\ requests[1].accepted
    /\ requests[2].pc = "done" /\ requests[2].key = requests[1].key
    /\ requests[2].req # requests[1].req
    /\ requests[2].calls = 0
    /\ requests[2].issuedAt - requests[2].seen.timestamp = 3600000
    /\ requests[2].result.bank # requests[2].seen.data.bank

\* two dictation calls of one level whose challengeWords differ
ChallengeDiffers(r1, r2) ==
    /\ r1.pc # "idle" /\ r2.pc # "idle"
    /\ r1.req.op = "dictation" /\ r2.req.op = "dictation"
    /\ r1.req.param = r2.req.param
    /\ r1.req.challenge # r2.req.challenge

\* the first call has stored its text, the second was issued after that and
\* read the entry within its TTL
SecondWithinTTL(r1, r2) ==
    /\ r1.pc = "done" /\ r1.resp.kind = "ok" /\ r1.wrote /\ r1.accepted
    /\ ~r2.overlaps
    /\ IssuedOnStored(r2)

\* the second call returned the text of the first, shuffledWords in some
\* order, without a call of the generator
ServedTheFirst(r1, r2) ==
    /\ r2.pc = "done" /\ r2.calls = 0
    /\ r2.result.type = r1.result.type
    /\ r2.result.text = r1.result.text
    /\ SameUpToOrder(r2.result.bank, r1.result.bank)

C10_WriteFailureSwallowed ==
    \A slot \in Slots :
        LET r == requests[slot]
        IN  (r.pc = "done" /\ r.wrote /\ ~r.accepted) =>
              /\ r.result = r.resp.value
              /\ r.result = AfterCall(r.req, r.resp, storage, now, TRUE).result

\* a dictation whose cache write was rejected returns its generated text
C10_Witness ==
    \E slot \in Slots :
        /\ requests[slot].pc = "done" /\ requests[slot].req.op = "dictation"
        /\ requests[slot].wrote /\ ~requests[slot].accepted
        /\ requests[slot].result.type = "object"
        /\ storage[requests[slot].key] = NoItem

\* a text is stored under the key, and it is not the JSON of a cache entry
IsCorrupt(itemStr) == itemStr.form \notin {"null", "json"}

\* no value: null or undefined
Absent(v) == v.type \in {"null", "undefined"}

\* C11: when the text stored under the key of a call is corrupt, getCache
\* returns no value (and raises nothing), and the operation goes on as on a
\* cache miss: it makes its external call.
C11_CorruptIsMiss ==
    \A slot \in Slots :
        LET r == requests[slot]
        IN  (r.pc # "idle" /\ IsCorrupt(r.seen)) =>
              /\ Absent(r.cached)
              /\ r.calls = 1

\* two calls with one key, the second issued while the first was awaiting
\* its external call, have both returned after a successful generation
BothGenerated ==
    /\ requests[1].pc = "done" /\ requests[2].pc = "done"
    /\ requests[1].key = requests[2].key
    /\ requests[2].overlaps
    /\ requests[1].resp.kind = "ok" /\ requests[2].resp.kind = "ok"

\* the call that returned last among the calls of a set
LastOf(slots) == CHOOSE s \in slots : \A o \in slots : requests[o].rank <= requests[s].rank

\* C20 as stated: two such calls have both missed the cache and made their
\* external call, and the entry under the key holds the result of the call
\* that completed last.
C20_LastWriteWins_Original ==
    BothGenerated =>
        /\ requests[1].calls = 1 /\ requests[2].calls = 1
        /\ IsEntry(storage[requests[1].key])
        /\ storage[requests[1].key].data = requests[LastOf(Slots)].result

\* C20 as amended: two such calls have both missed the cache and made their
\* external call, and the entry under the key holds the result of the last
\* call whose cache write the storage accepted; there is no entry when it
\* accepted neither write.
C20_LastWriteWins ==
    BothGenerated =>
        LET stored == { s \in Slots : requests[s].accepted }
        IN  /\ requests[1].calls = 1 /\ requests[2].calls = 1
            /\ \A s \in Slots : requests[s].wrote /\ ~CacheHit(requests[s].cached)
            /\ IF stored = {} THEN storage[requests[1].key] = NoItem
               ELSE /\ IsEntry(storage[requests[1].key])
                    /\ storage[requests[1].key].data = requests[LastOf(stored)].result

\* two dictation calls (word lists in two orders) overlap; the call issued
\* first returns last, with another text, and its text is the one stored
C20_Witness ==
    /\ BothGenerated
    /\ requests[1].req # requests[2].req
    /\ requests[1].accepted /\ requests[2].accepted
    /\ requests[1].rank > requests[2].rank
    /\ requests[1].result # requests[2].result
    /\ storage[requests[1].key].data = requests[1].result

\* C14: a call whose external call throws or yields no usable data returns
\* null, and has made one external call only (no retry).
C14_FailureGivesNull ==
    \A slot \in Slots :
        LET r == requests[slot]
        IN  (r.pc = "done" /\ r.resp.kind \in {"throws", "unusable"}) =>
              /\ r.result = Null
              /\ r.calls = 1

\* the external call of the request threw, or its result was rejected
Failed(r) == r.pc = "done" /\ r.resp.kind \in {"throws", "unusable"}

C12_PermutationInvariant ==
    \A i, j \in 1..Len(requests) :
        (/\ requests[i].req.op \in WordListOps
         /\ requests[i].req.op = requests[j].req.op
         /\ requests[i].req.param = requests[j].req.param
         /\ SameUpToOrder(requests[i].req.words, requests[j].req.words)) =>
            requests[i].key = requests[j].key

\* two dictation calls with the same two words in different orders
C12_Witness ==
    /\ Len(requests) = 2
    /\ requests[1].req.op = "dictation" /\ requests[2].req.op = "dictation"
    /\ requests[1].req.words = <<"c", "a:b">>
    /\ requests[2].req.words = <<"a:b", "c">>
    /\ requests[1].key = requests[2].key

\* C13: two part sequences that differ, in content or in order, never give
\* the same cache key.
C13_KeyInjective ==
    \A i, j \in 1..Len(requests) :
        requests[i].parts # requests[j].parts => requests[i].key # requests[j].key

\* ------------------------------------------------------------------------
\* Properties of the word pool and the session history
\* ------------------------------------------------------------------------
\* C15: no two pool words have the same text, in every reachable state of
\* the pool, adds and uploads with a pending translation call included.
C15_UniqueTexts ==
    \A i, j \in DOMAIN words : words[i].text = words[j].text => i = j

\* the last step was the finish of a dictation
DictationFinished == finished.is /\ finished.result.type = "Dictation"

\* the number of blanks of the text that were answered wrong
WrongBlanks(text) ==
    Cardinality({ i \in DOMAIN finished.guess :
                    finished.guess[i] = text /\ ~finished.correct[i] })

\* C16: when a dictation finishes, every pool word that occurred in the
\* dictation, answered right or wrong, has its usageCount raised by one and
\* its lastUsed set to the finish time; the other words are unchanged.
C16_UsedWordsCounted ==
    DictationFinished =>
        /\ Len(words) = Len(finished.wordsBefore)
        /\ \A i \in DOMAIN words :
             LET before == finished.wordsBefore[i]
             IN  IF before.text \in Range(finished.guess)
                 THEN /\ words[i].usageCount = before.usageCount + 1
                      /\ words[i].lastUsed = finished.time
                      /\ words[i].text = before.text
                      /\ words[i].dateAdded = before.dateAdded
                 ELSE words[i] = before

\* C17: when a dictation finishes, the errorCount of each pool word
\* has grown by the number of its blanks that were answered wrong.
C17_ErrorCountPerBlank ==
    DictationFinished =>
        /\ Len(words) = Len(finished.wordsBefore)
        /\ \A i \in DOMAIN words :
             words[i].errorCount =
                 finished.wordsBefore[i].errorCount + WrongBlanks(words[i].text)

\* C26: from an empty pool, after any adds, imports, removals and finished
\* sessions, every pool word has usageCount = errorCount, and its lastUsed is
\* null exactly when its errorCount is 0.
C26_UsageEqualsErrors ==
    \A i \in DOMAIN words :
        /\ words[i].usageCount = words[i].errorCount
        /\ words[i].lastUsed = NoStamp <=> words[i].errorCount = 0

\* a dictation of two pool words has finished, one answered wrong and now
\* counted, the other answered right and left as it was added
C26_Witness ==
    /\ DictationFinished
    /\ \E i, j \in DOMAIN words :
         /\ words[i].text \in Range(finished.guess)
         /\ words[i].errorCount = 1 /\ words[i].lastUsed = finished.time
         /\ words[j].text \in Range(finished.guess)
         /\ words[j].errorCount = 0 /\ words[j].lastUsed = NoStamp

\* the sequence without its k-th element
Without(seq, k) == SubSeq(seq, 1, k - 1) \o SubSeq(seq, k + 1, Len(seq))

\* C18: a finished session of any type adds exactly one entry to the
\* history; the entries present before are still there, unchanged and in the
\* same order.
C18_HistoryGrowsByOne ==
    finished.is =>
        /\ Len(history) = Len(finished.historyBefore) + 1
        /\ \E k \in DOMAIN history :
             /\ history[k] = finished.result
             /\ Without(history, k) = finished.historyBefore

\* a quiz finished after a stored session and a dictation: three entries,
\* the two older ones different
C18_Witness ==
    /\ finished.is /\ finished.result.type = "Quiz"
    /\ Len(history) = 3
    /\ history[2].type = "Dictation"
    /\ history[3].type = "NewsListening"
    /\ finished.historyBefore = <<history[2], history[3]>>

\* ------------------------------------------------------------------------
\* Properties of repeated sessions
\* ------------------------------------------------------------------------
\* C21: under repeated dictation sessions on a pool at least as large as the
\* requested count, every word of the pool is eventually selected in some
\* session, whatever the answers given.
C21_EveryWordSelected ==
    \A t \in 1..MaxPool :
        <>(\/ t > Len(words)
           \/ \E i \in DOMAIN selectedWords : selectedWords[i].text = TextAt(t))

====
